---- MODULE Spec2Model ----
(***************************************************************************)
(* Model of the aggregation core of Game_Achievements_Backlog_Back:        *)
(*   - SteamService (services/SteamService.ts): request-level cache,       *)
(*     getUserGames, getGameAchievements, transformAchievementsData        *)
(*   - rateLimit middleware (middleware/rateLimit.ts)                      *)
(*   - cacheMiddleware (middleware/cache.ts) and errorHandler              *)
(*   - the two routes of routes/steam.ts                                   *)
(* Time is Date.now() in milliseconds.                                     *)
(***************************************************************************)
EXTENDS Integers, Sequences, FiniteSets, TLC

(***************************************************************************)
(* Bounds of the model                                                     *)
(***************************************************************************)
MaxLen == 2
MaxTicks == 2
MaxCount == 17
MaxReq == 3
MaxAchReq == 2
MaxIncReq == 1
MaxPending == 6

Names == {"A", "B"}
Percents == {0, 10}
UnlockTimes == {0, 1700000000}

RECURSIVE SeqsUpTo(_, _)
SeqsUpTo(S, n) ==
  IF n = 0 THEN {<<>>}
  ELSE LET shorter == SeqsUpTo(S, n - 1)
       IN shorter \cup {Append(s, x) : s \in {t \in shorter : Len(t) = n - 1}, x \in S}

(***************************************************************************)
(* Raw upstream entries, with the fields transformAchievementsData reads   *)
(***************************************************************************)
RawSchemaEntry == [name : Names]
RawGlobalStat == [name : Names, percent : Percents]
RawUserAchievement == [apiname : Names, achieved : {0, 1}, unlocktime : UnlockTimes]

VARIABLES
  mSchema,      \* argument schema of transformAchievementsData
  mGlobal,      \* argument globalStats
  mUser,        \* argument userAchievements
  mOut,         \* the returned Achievement[]
  mPc           \* "input" before the call, "merged" after it

mergeVars == <<mSchema, mGlobal, mUser, mOut, mPc>>

VARIABLES
  now,          \* Date.now(), milliseconds
  ticks,        \* number of clock advances so far
  requestStore, \* the module-level Map of rateLimit.ts, one entry per key
  lastCheck,    \* history: the latest admission check and its outcome
  winStart,     \* history: per key, time of the first check of its window
  winChecks,    \* history: per key, checks made since winStart
  winRoutes     \* history: per key, routes that made those checks

limiterVars == <<requestStore, lastCheck, winStart, winChecks, winRoutes>>
clockVars == <<now, ticks>>

VARIABLES
  reqCache,     \* SteamService.cache: the request-level cache
  respCache,    \* the NodeCache of middleware/cache.ts: the response cache
  req,          \* the requests: position, upstream fetches, response
  events        \* history: number of arrivals and responses so far

pipeVars == <<reqCache, respCache, req, events>>

(***************************************************************************)
(* Map<string, Partial<Achievement>>: an insertion-ordered map, kept as    *)
(* the sequence of its values in insertion order, keyed by apiName.        *)
(* An optional field (unlockTime) is <<>> when undefined, <<t>> when set.  *)
(***************************************************************************)
MapHas(map, k) == \E i \in 1..Len(map) : map[i].apiName = k

MapGet(map, k) == map[CHOOSE i \in 1..Len(map) : map[i].apiName = k]

\* Map.set: replaces the value in place when the key exists, appends otherwise
MapSet(map, k, v) ==
  IF MapHas(map, k)
  THEN [i \in 1..Len(map) |-> IF map[i].apiName = k THEN v ELSE map[i]]
  ELSE Append(map, v)

\* JavaScript truthiness of a number
Truthy(n) == n # 0

\* the record built from one schema entry (lines 144-156)
BaseRecord(ach) ==
  [apiName |-> ach.name,
   globalPercentage |-> 0,
   unlocked |-> FALSE,
   unlockTime |-> <<>>,
   platform |-> "steam"]

RECURSIVE SchemaPass(_, _)
SchemaPass(map, schema) ==
  IF schema = <<>> THEN map
  ELSE SchemaPass(MapSet(map, Head(schema).name, BaseRecord(Head(schema))),
                  Tail(schema))

\* mutant: the overlay inserts a record for a key the schema does not have
GlobalStepNoGuard(map, globalAch) ==
  MapSet(map, globalAch.name,
         [(IF MapHas(map, globalAch.name)
           THEN MapGet(map, globalAch.name)
           ELSE BaseRecord([name |-> globalAch.name]))
          EXCEPT !.globalPercentage = globalAch.percent])

\* mutant: the overlay adds to the percentage instead of overwriting it
GlobalStepAdd(map, globalAch) ==
  IF MapHas(map, globalAch.name)
  THEN MapSet(map, globalAch.name,
              [MapGet(map, globalAch.name)
               EXCEPT !.globalPercentage = @ + globalAch.percent])
  ELSE map

\* mutant: the overlay rebuilds the record from the schema defaults
GlobalStepRebuild(map, globalAch) ==
  IF MapHas(map, globalAch.name)
  THEN MapSet(map, globalAch.name,
              [BaseRecord([name |-> globalAch.name])
               EXCEPT !.globalPercentage = globalAch.percent])
  ELSE map

\* body of globalStats.forEach (lines 160-163)
GlobalStep(map, globalAch) ==
  IF MapHas(map, globalAch.name)
  THEN MapSet(map, globalAch.name,
              [MapGet(map, globalAch.name)
               EXCEPT !.globalPercentage = globalAch.percent])
  ELSE map

RECURSIVE GlobalPass(_, _)
GlobalPass(map, globalStats) ==
  IF globalStats = <<>> THEN map
  ELSE GlobalPass(GlobalStep(map, Head(globalStats)), Tail(globalStats))

\* body of userAchievements.forEach (lines 167-171)
UserStep(map, userAch) ==
  IF MapHas(map, userAch.apiname)
  THEN MapSet(map, userAch.apiname,
              [MapGet(map, userAch.apiname)
               EXCEPT !.unlocked = (userAch.achieved = 1),
                      !.unlockTime = IF Truthy(userAch.unlocktime)
                                     THEN <<userAch.unlocktime>>
                                     ELSE <<>>])
  ELSE map

RECURSIVE UserPass(_, _)
UserPass(map, userAchievements) ==
  IF userAchievements = <<>> THEN map
  ELSE UserPass(UserStep(map, Head(userAchievements)), Tail(userAchievements))

\* Array.from(achievementMap.values()) after the three passes
transformAchievementsData(userAchievements, globalStats, schema) ==
  UserPass(GlobalPass(SchemaPass(<<>>, schema), globalStats), userAchievements)

(***************************************************************************)
(* rateLimit middleware (middleware/rateLimit.ts)                          *)
(***************************************************************************)
Routes == {"games", "achievements"}
ClientKeys == {"ip1", "ip2"}
TickSteps == {1, 60000}

\* rateLimit({ windowMs: 60000, maxRequests: 10 }) and
\* rateLimit({ windowMs: 60000, maxRequests: 15 }) of routes/steam.ts
LimitConfig(route) ==
  IF route = "games"
  THEN [windowMs |-> 60000, maxRequests |-> 10]
  ELSE [windowMs |-> 60000, maxRequests |-> 15]

\* Map.get of a key without entry
NoEntry == [present |-> FALSE, count |-> 0, resetTime |-> 0]

\* Math.ceil(ms / 1000)
CeilSeconds(ms) == -((-ms) \div 1000)

\* data.resetTime < windowStart (lines 24 and 30)
Expired(data, windowStart) == data.resetTime < windowStart

\* mutant: the quota comparison is off by one
OverLimitOffByOne(clientData, config) == clientData.count >= config.maxRequests

\* clientData.count > config.maxRequests (line 37)
OverLimit(clientData, config) == clientData.count > config.maxRequests

\* mutant: no cleanup of the entries of other keys
PurgeNone(store, windowStart) == store

\* the cleanup loop over requestStore.entries() (lines 23-27)
PurgeExpired(store, windowStart) ==
  [ip \in DOMAIN store |->
     IF store[ip].present /\ Expired(store[ip], windowStart)
     THEN NoEntry ELSE store[ip]]

\* mutant: a rejected check restarts the window of its key
rateLimitRestartOnReject(store, t, key, config) ==
  LET windowStart == t - config.windowMs
      purged == PurgeExpired(store, windowStart)
      found == purged[key].present
      fresh == [present |-> TRUE, count |-> 0, resetTime |-> t]
      got == IF found THEN purged[key] ELSE fresh
      reset == IF Expired(got, windowStart)
               THEN [got EXCEPT !.count = 0, !.resetTime = t]
               ELSE got
      counted == [reset EXCEPT !.count = @ + 1]
      rejected == OverLimit(counted, config)
      clientData == IF rejected THEN [counted EXCEPT !.resetTime = t]
                    ELSE counted
  IN [store |-> IF rejected /\ ~found
                THEN purged
                ELSE [purged EXCEPT ![key] = clientData],
      admitted |-> ~rejected,
      status |-> IF rejected THEN 429 ELSE 0,
      retryAfter |-> IF rejected
                     THEN CeilSeconds(clientData.resetTime + config.windowMs - t)
                     ELSE 0,
      remaining |-> config.maxRequests - clientData.count,
      reset |-> CeilSeconds(clientData.resetTime + config.windowMs)]

\* One run of the middleware returned by rateLimit(config) for a request
\* that has a key, at time t.  clientData is the object held by the map when
\* the key has an entry, so count++ changes the stored entry also when the
\* request is rejected; a new object enters the map only at line 51.
rateLimit(store, t, key, config) ==
  LET windowStart == t - config.windowMs
      purged == PurgeExpired(store, windowStart)
      found == purged[key].present
      fresh == [present |-> TRUE, count |-> 0, resetTime |-> t]
      got == IF found THEN purged[key] ELSE fresh
      reset == IF Expired(got, windowStart)
               THEN [got EXCEPT !.count = 0, !.resetTime = t]
               ELSE got
      clientData == [reset EXCEPT !.count = @ + 1]
      rejected == OverLimit(clientData, config)
  IN [store |-> IF rejected /\ ~found
                THEN purged
                ELSE [purged EXCEPT ![key] = clientData],
      admitted |-> ~rejected,
      status |-> IF rejected THEN 429 ELSE 0,
      retryAfter |-> IF rejected
                     THEN CeilSeconds(clientData.resetTime + config.windowMs - t)
                     ELSE 0,
      remaining |-> config.maxRequests - clientData.count,
      reset |-> CeilSeconds(clientData.resetTime + config.windowMs)]

\* history of the checks of one key, kept apart from requestStore
NoteCheck(route, key, res) ==
  LET W == LimitConfig(route).windowMs
      newWindow == winRoutes[key] = {} \/ now - winStart[key] > W
  IN /\ lastCheck' = [route |-> route, key |-> key, at |-> now,
                      admitted |-> res.admitted, retryAfter |-> res.retryAfter,
                      prev |-> requestStore[key]]
     /\ winStart' = [winStart EXCEPT ![key] = IF newWindow THEN now ELSE @]
     /\ winChecks' = [winChecks EXCEPT ![key] = IF newWindow THEN 1 ELSE @ + 1]
     /\ winRoutes' = [winRoutes EXCEPT
                        ![key] = IF newWindow THEN {route} ELSE @ \cup {route}]

(***************************************************************************)
(* SteamService (services/SteamService.ts)                                 *)
(***************************************************************************)
MaxSlots ==
  IF MaxReq >= MaxAchReq /\ MaxReq >= MaxIncReq THEN MaxReq
  ELSE IF MaxAchReq >= MaxIncReq THEN MaxAchReq ELSE MaxIncReq
ReqIds == 1..MaxSlots
AppIds == {1, 2}
SourceSet == {"user", "global", "schema"}

\* cacheKey = `${endpoint}:${JSON.stringify(params)}` for the one steamId of
\* the model: the owned-games call and the three calls per app
OwnedKey == <<"owned", 0>>
ReqCacheKeys == {OwnedKey} \cup (SourceSet \X AppIds)

NoCached == [present |-> FALSE, data |-> <<>>, expiry |-> 0]

\* mutant: an entry of the request cache never expires
CacheFreshForever(cached, t) == cached.present

\* mutant: an entry is still served at its expiry time
CacheFreshAtExpiry(cached, t) == cached.present /\ cached.expiry >= t

\* cached && cached.expiry > Date.now() (line 48)
CacheFresh(cached, t) == cached.present /\ cached.expiry > t

\* this.cache.set(cacheKey, { data, expiry: Date.now() + 3600000 })
StoreData(cache, cacheKey, data, t) ==
  [cache EXCEPT ![cacheKey] =
     [present |-> TRUE, data |-> data, expiry |-> t + 3600000]]

\* what the upstream API answers to the three achievement calls of an app
UpstreamData(source, app) ==
  IF source = "schema"
  THEN (IF app = 1 THEN <<[name |-> "A"], [name |-> "B"]>>
        ELSE <<[name |-> "A"]>>)
  ELSE IF source = "global"
  THEN (IF app = 1 THEN <<[name |-> "A", percent |-> 10]>> ELSE <<>>)
  ELSE (IF app = 1
        THEN <<[apiname |-> "B", achieved |-> 1, unlocktime |-> 1700000000]>>
        ELSE <<>>)

\* what the upstream API answers to GetOwnedGames: response.games
OwnedResponses ==
  {<<[appid |-> 1, playtime_forever |-> 30, rtime_last_played |-> <<>>],
     [appid |-> 2, playtime_forever |-> 5, rtime_last_played |-> <<0>>]>>,
   <<[appid |-> 2, playtime_forever |-> 45,
      rtime_last_played |-> <<1700>>]>>}

\* the errors axios hands to the response interceptor
UpstreamFailures ==
  {[response |-> TRUE, request |-> TRUE, status |-> 403],
   [response |-> FALSE, request |-> TRUE, status |-> 0],
   [response |-> FALSE, request |-> FALSE, status |-> 0]}

\* handleSteamError: the statusCode of the SteamAPIError
handleSteamError(error) ==
  IF error.response THEN [statusCode |-> error.status, kind |-> "http"]
  ELSE IF error.request THEN [statusCode |-> 503, kind |-> "network"]
  ELSE [statusCode |-> 500, kind |-> "unexpected"]

\* transformGameData: lastPlayed is <<>> when undefined
transformGameData(game) ==
  [appId |-> game.appid,
   playtime |-> game.playtime_forever,
   lastPlayed |-> IF game.rtime_last_played # <<>>
                  THEN <<game.rtime_last_played[1] * 1000>>
                  ELSE <<>>,
   achievements |-> <<>>]

\* the synchronous part of makeRequest: a fresh entry is returned at once,
\* otherwise the upstream call is issued and awaited
StartFetch(cache, cacheKey, t) ==
  IF CacheFresh(cache[cacheKey], t)
  THEN [st |-> "ok", data |-> cache[cacheKey].data]
  ELSE [st |-> "pending", data |-> <<>>]

\* the three makeRequest calls handed to Promise.all (lines 111-123)
StartGame(cache, app, t) ==
  [source \in SourceSet |-> StartFetch(cache, <<source, app>>, t)]

PendingIn(fetches) == {source \in SourceSet : fetches[source].st = "pending"}

\* mutant: the failure of a fetch is rethrown by getGameAchievements
GameResultRethrow(fetches) ==
  IF \E source \in SourceSet : fetches[source].st = "fail"
  THEN [settled |-> TRUE, raised |-> TRUE, list |-> <<>>]
  ELSE IF \A source \in SourceSet : fetches[source].st = "ok"
  THEN [settled |-> TRUE, raised |-> FALSE,
        list |-> transformAchievementsData(fetches["user"].data,
                   fetches["global"].data, fetches["schema"].data)]
  ELSE [settled |-> FALSE, raised |-> FALSE, list |-> <<>>]

\* the promise getGameAchievements returns, as a function of its three
\* fetches (lines 110-133): Promise.all rejects with the first rejection,
\* the catch turns that into [], and it resolves once all three resolved
GameResult(fetches) ==
  IF \E source \in SourceSet : fetches[source].st = "fail"
  THEN [settled |-> TRUE, raised |-> FALSE, list |-> <<>>]
  ELSE IF \A source \in SourceSet : fetches[source].st = "ok"
  THEN [settled |-> TRUE, raised |-> FALSE,
        list |-> transformAchievementsData(fetches["user"].data,
                   fetches["global"].data, fetches["schema"].data)]
  ELSE [settled |-> FALSE, raised |-> FALSE, list |-> <<>>]

(***************************************************************************)
(* cacheMiddleware (middleware/cache.ts), errorHandler and the route       *)
(* handlers (routes/steam.ts)                                              *)
(***************************************************************************)
\* key = `${req.originalUrl}:${JSON.stringify(req.query)}`
RespKeys == {<<"games", FALSE, 0>>, <<"games", TRUE, 0>>}
              \cup {<<"achievements", FALSE, app>> : app \in AppIds}

\* cacheMiddleware(300) and cacheMiddleware(600): seconds
RouteTtl(route) == IF route = "games" THEN 300 ELSE 600

NoBody == [kind |-> "none"]
NoStored == [present |-> FALSE, body |-> NoBody, expiry |-> 0]

\* cache.get(key) of node-cache returns the value until its expiry time has
\* passed; a stored body is an object, so the test of line 15 holds for it
ResponseCached(entry, t) == entry.present /\ entry.expiry >= t

\* mutant: the ttl is taken for milliseconds
StoreBodyMillis(cache, key, body, ttl, t) ==
  [cache EXCEPT ![key] =
     [present |-> TRUE, body |-> body, expiry |-> t + ttl]]

\* cache.set(key, body, ttl) in the replaced res.json (lines 21-25)
StoreBody(cache, key, body, ttl, t) ==
  [cache EXCEPT ![key] =
     [present |-> TRUE, body |-> body, expiry |-> t + ttl * 1000]]

NewRequest ==
  [pc |-> "new", route |-> "none", key |-> "none", respKey |-> <<"none", FALSE, 0>>,
   inc |-> FALSE, patched |-> FALSE,
   owned |-> "none", raw |-> <<>>, games |-> <<>>, apps |-> <<>>,
   fetch |-> <<>>, order |-> <<>>,
   calls |-> 0, status |-> 0, body |-> NoBody, fromCache |-> FALSE,
   arrivedAt |-> 0, arriveSeq |-> 0, doneAt |-> 0, doneSeq |-> 0]

\* res.status(code).json(body): the request is answered
Respond(rec, status, body, t, n) ==
  [rec EXCEPT !.pc = "done", !.status = status, !.body = body,
              !.doneAt = t, !.doneSeq = n]

\* mutant: an upstream failure is answered as an empty games list
ErrorResponseAsEmptyList(rec, error, t, n) ==
  Respond(rec, 200,
          [kind |-> "games", games |-> <<>>, totalCount |-> 0,
           totalPlaytime |-> 0, lastUpdated |-> t],
          t, n)

\* errorHandler for a SteamAPIError: res.status(error.statusCode || 500)
ErrorResponse(rec, error, t, n) ==
  Respond(rec, IF error.statusCode # 0 THEN error.statusCode ELSE 500,
          [kind |-> "error", code |-> "STEAM_API_ERROR", cause |-> error.kind],
          t, n)

RECURSIVE SumPlaytime(_)
SumPlaytime(games) ==
  IF games = <<>> THEN 0 ELSE Head(games).playtime + SumPlaytime(Tail(games))

CountUnlocked(list) == Cardinality({i \in 1..Len(list) : list[i].unlocked})

\* mutant: the games are listed in the order their achievement fetches
\* settled
GamesBodyByCompletion(rec, t) ==
  [kind |-> "games",
   games |-> IF rec.inc
             THEN [i \in 1..Len(rec.games) |->
                     [rec.games[rec.order[i]] EXCEPT
                        !.achievements =
                           <<GameResult(rec.fetch[rec.order[i]]).list>>]]
             ELSE rec.games,
   totalCount |-> Len(rec.games),
   totalPlaytime |-> SumPlaytime(rec.games),
   lastUpdated |-> t]

\* the body of the games route (lines 49-77)
GamesBody(rec, t) ==
  [kind |-> "games",
   games |-> IF rec.inc
             THEN [i \in 1..Len(rec.games) |->
                     [rec.games[i] EXCEPT
                        !.achievements = <<GameResult(rec.fetch[i]).list>>]]
             ELSE rec.games,
   totalCount |-> Len(rec.games),
   totalPlaytime |-> SumPlaytime(rec.games),
   lastUpdated |-> t]

\* the body of the achievements route (lines 99-113); the percentage is
\* exact for the lists of UpstreamData
AchievementsBody(rec) ==
  LET achievements == GameResult(rec.fetch[1]).list
      unlockedCount == CountUnlocked(achievements)
  IN [kind |-> "achievements",
      achievements |-> achievements,
      total |-> Len(achievements),
      unlocked |-> unlockedCount,
      percentage |-> IF Len(achievements) > 0
                     THEN (unlockedCount * 100) \div Len(achievements)
                     ELSE 0]

\* history: the order in which the getGameAchievements promises of a request
\* settled; the ones that settle in the same run are taken in index order
RECURSIVE SettledOrder(_, _, _)
SettledOrder(fetches, order, i) ==
  IF i > Len(fetches) THEN order
  ELSE SettledOrder(fetches,
         IF GameResult(fetches[i]).settled
            /\ \A j \in 1..Len(order) : order[j] # i
         THEN Append(order, i) ELSE order,
         i + 1)

\* after the awaits of a handler: when every getGameAchievements promise has
\* settled the response is built and sent; a raised one goes to next(error)
TryFinish(rec0, t, n) ==
  LET rec == [rec0 EXCEPT !.order = SettledOrder(rec0.fetch, rec0.order, 1)]
      results == [i \in 1..Len(rec.fetch) |-> GameResult(rec.fetch[i])]
  IN IF \E i \in 1..Len(results) : results[i].settled /\ results[i].raised
     THEN ErrorResponse(rec, [statusCode |-> 503, kind |-> "network"], t, n)
     ELSE IF \A i \in 1..Len(results) : results[i].settled
     THEN Respond(rec, 200,
                  IF rec.route = "games" THEN GamesBody(rec, t)
                  ELSE AchievementsBody(rec), t, n)
     ELSE [rec EXCEPT !.pc = "awaitAch"]

\* getGameAchievements is called for every app of rec.apps (lines 51-59 for
\* the games route, line 95 for the achievements route)
StartAchievements(rec, cache, t, n) ==
  LET fetches == [i \in 1..Len(rec.apps) |-> StartGame(cache, rec.apps[i], t)]
      issued == [i \in 1..Len(fetches) |-> Cardinality(PendingIn(fetches[i]))]
      total == IF Len(issued) = 0 THEN 0
               ELSE IF Len(issued) = 1 THEN issued[1]
               ELSE issued[1] + issued[2]
  IN TryFinish([rec EXCEPT !.fetch = fetches, !.calls = @ + total], t, n)

\* the games handler once getUserGames has returned (lines 47-79)
AfterOwned(rec, data, cache, t, n) ==
  LET games == [i \in 1..Len(data) |-> transformGameData(data[i])]
      withGames == [rec EXCEPT !.owned = "ok", !.raw = data, !.games = games]
  IN IF rec.inc
     THEN StartAchievements(
            [withGames EXCEPT !.apps = [i \in 1..Len(games) |-> games[i].appId]],
            cache, t, n)
     ELSE TryFinish(withGames, t, n)

\* a request enters the handler (cache miss): the code up to its first await
EnterHandler(rec, cache, t, n) ==
  IF rec.route = "games"
  THEN IF CacheFresh(cache[OwnedKey], t)
       THEN AfterOwned(rec, cache[OwnedKey].data, cache, t, n)
       ELSE [rec EXCEPT !.pc = "awaitOwned", !.owned = "pending", !.calls = 1]
  ELSE StartAchievements(rec, cache, t, n)

\* mutant: every response is stored, also one sent before cacheMiddleware
\* has run
CacheAfterAlways(cache, rec, t) ==
  IF rec.pc = "done"
  THEN StoreBody(cache, rec.respKey, rec.body, RouteTtl(rec.route), t)
  ELSE cache

\* the response cache after a step of a request: a response sent through
\* the replaced res.json is stored under the request's key
CacheAfter(cache, rec, t) ==
  IF rec.pc = "done" /\ rec.patched
  THEN StoreBody(cache, rec.respKey, rec.body, RouteTtl(rec.route), t)
  ELSE cache

(***************************************************************************)
(* Initial values of each part                                             *)
(***************************************************************************)
MergeIdle ==
  /\ mSchema = <<>> /\ mGlobal = <<>> /\ mUser = <<>>
  /\ mOut = <<>> /\ mPc = "off"

ClockInit == now = 0 /\ ticks = 0

LimiterInit ==
  /\ requestStore = [k \in ClientKeys |-> NoEntry]
  /\ lastCheck = [route |-> "none", key |-> "none", at |-> 0,
                  admitted |-> TRUE, retryAfter |-> 0, prev |-> NoEntry]
  /\ winStart = [k \in ClientKeys |-> 0]
  /\ winChecks = [k \in ClientKeys |-> 0]
  /\ winRoutes = [k \in ClientKeys |-> {}]

PipeInit ==
  /\ reqCache = [k \in ReqCacheKeys |-> NoCached]
  /\ respCache = [k \in RespKeys |-> NoStored]
  /\ req = [r \in ReqIds |-> NewRequest]
  /\ events = 0

vars == <<mergeVars, clockVars, limiterVars, pipeVars>>

(***************************************************************************)
(* Specification of the merge as a function of its inputs                  *)
(***************************************************************************)
MergeInit ==
  /\ mSchema \in SeqsUpTo(RawSchemaEntry, MaxLen)
  /\ mGlobal \in SeqsUpTo(RawGlobalStat, MaxLen)
  /\ mUser \in SeqsUpTo(RawUserAchievement, MaxLen)
  /\ mOut = <<>>
  /\ mPc = "input"
  /\ ClockInit /\ LimiterInit /\ PipeInit

Transform ==
  /\ mPc = "input"
  /\ mOut' = transformAchievementsData(mUser, mGlobal, mSchema)
  /\ mPc' = "merged"
  /\ UNCHANGED <<mSchema, mGlobal, mUser, clockVars, limiterVars, pipeVars>>

MergeNext == Transform

SpecMerge == MergeInit /\ [][MergeNext]_vars

(***************************************************************************)
(* Specification of the limiter: admission checks of both routes on the    *)
(* one requestStore, and the clock                                         *)
(***************************************************************************)
Tick(d) ==
  /\ ticks < MaxTicks
  /\ now' = now + d
  /\ ticks' = ticks + 1
  /\ UNCHANGED <<mergeVars, limiterVars, pipeVars>>

LimiterCheck(route, key) ==
  /\ requestStore[key].count < MaxCount
  /\ LET res == rateLimit(requestStore, now, key, LimitConfig(route))
     IN /\ requestStore' = res.store
        /\ NoteCheck(route, key, res)
  /\ UNCHANGED <<mergeVars, clockVars, pipeVars>>

LimiterNext ==
  \/ \E route \in Routes, key \in ClientKeys : LimiterCheck(route, key)
  \/ \E d \in TickSteps : Tick(d)

LimiterSpecInit == MergeIdle /\ ClockInit /\ LimiterInit /\ PipeInit

SpecLimiter == LimiterSpecInit /\ [][LimiterNext]_vars

(***************************************************************************)
(* The requests: each action is one uninterrupted run of the code, from    *)
(* an arrival or the completion of an upstream call to the next await      *)
(***************************************************************************)
PipeTickSteps == {300000}
GamesTickSteps == {60001, 300000}
PipeKeys == {"ip1"}
AchApps == {1}

\* upstream calls in flight; the model lets at most MaxPending be in flight
RECURSIVE PendingCalls(_, _)
PendingCalls(reqs, r) ==
  IF r = 0 THEN 0
  ELSE PendingCalls(reqs, r - 1)
       + (IF reqs[r].owned = "pending" THEN 1 ELSE 0)
       + (IF Len(reqs[r].fetch) >= 1
          THEN Cardinality(PendingIn(reqs[r].fetch[1])) ELSE 0)
       + (IF Len(reqs[r].fetch) >= 2
          THEN Cardinality(PendingIn(reqs[r].fetch[2])) ELSE 0)

\* a GET arrives: rateLimit, validateRequest (valid parameters),
\* cacheMiddleware and the handler up to its first pending upstream call
Arrive(r, route, key, inc, app) ==
  /\ req[r].pc = "new"
  /\ \A q \in ReqIds : q < r => req[q].pc # "new"
  /\ requestStore[key].count < MaxCount
  /\ LET lim == rateLimit(requestStore, now, key, LimitConfig(route))
         n == events + 1
         respKey == <<route, inc, app>>
         base == [NewRequest EXCEPT
                    !.route = route, !.key = key, !.inc = inc,
                    !.respKey = respKey,
                    !.apps = IF route = "achievements" THEN <<app>> ELSE <<>>,
                    !.arrivedAt = now, !.arriveSeq = n]
         rec == IF ~lim.admitted
                THEN Respond(base, 429,
                             [kind |-> "error", code |-> "RATE_LIMIT_EXCEEDED",
                              retryAfter |-> lim.retryAfter], now, n)
                ELSE IF ResponseCached(respCache[respKey], now)
                THEN Respond([base EXCEPT !.fromCache = TRUE], 200,
                             respCache[respKey].body, now, n)
                ELSE EnterHandler([base EXCEPT !.patched = TRUE],
                                  reqCache, now, n)
     IN /\ PendingCalls([req EXCEPT ![r] = rec], MaxSlots) <= MaxPending
        /\ requestStore' = lim.store
        /\ NoteCheck(route, key, lim)
        /\ req' = [req EXCEPT ![r] = rec]
        /\ respCache' = CacheAfter(respCache, rec, now)
        /\ events' = n
  /\ UNCHANGED <<mergeVars, clockVars, reqCache>>

ArriveGames(r, key, inc) == Arrive(r, "games", key, inc, 0)

ArriveAchievements(r, key, app) == Arrive(r, "achievements", key, FALSE, app)

\* the request has sent its response in this step
Finished(rec) == IF rec.pc = "done" THEN 1 ELSE 0

\* GetOwnedGames answers: makeRequest stores and returns the data
OwnedDone(r, data) ==
  /\ req[r].pc = "awaitOwned"
  /\ LET cache == StoreData(reqCache, OwnedKey, data, now)
         rec == AfterOwned(req[r], data, cache, now, events + 1)
     IN /\ PendingCalls([req EXCEPT ![r] = rec], MaxSlots) <= MaxPending
        /\ reqCache' = cache
        /\ req' = [req EXCEPT ![r] = rec]
        /\ respCache' = CacheAfter(respCache, rec, now)
        /\ events' = events + Finished(rec)
  /\ UNCHANGED <<mergeVars, clockVars, limiterVars>>

\* mutant: a failed call leaves an empty entry in the request cache
OwnedFailPoisons(r, error) ==
  /\ req[r].pc = "awaitOwned"
  /\ LET rec == ErrorResponse([req[r] EXCEPT !.owned = "fail"],
                              handleSteamError(error), now, events + 1)
     IN /\ req' = [req EXCEPT ![r] = rec]
        /\ respCache' = CacheAfter(respCache, rec, now)
        /\ events' = events + 1
        /\ reqCache' = StoreData(reqCache, OwnedKey, <<>>, now)
  /\ UNCHANGED <<mergeVars, clockVars, limiterVars>>

\* GetOwnedGames fails: the interceptor throws handleSteamError(error),
\* getUserGames rethrows, the handler calls next(error): errorHandler
OwnedFail(r, error) ==
  /\ req[r].pc = "awaitOwned"
  /\ LET rec == ErrorResponse([req[r] EXCEPT !.owned = "fail"],
                              handleSteamError(error), now, events + 1)
     IN /\ req' = [req EXCEPT ![r] = rec]
        /\ respCache' = CacheAfter(respCache, rec, now)
        /\ events' = events + 1
  /\ UNCHANGED <<mergeVars, clockVars, limiterVars, reqCache>>

\* mutant: the answer of a call is dropped once another call of the same
\* getGameAchievements has failed
FetchDoneAbandoned(r, i, source) ==
  /\ i \in 1..Len(req[r].fetch)
  /\ req[r].fetch[i][source].st = "pending"
  /\ LET data == UpstreamData(source, req[r].apps[i])
         got == [req[r] EXCEPT !.fetch[i][source] = [st |-> "ok", data |-> data]]
         rec == IF req[r].pc = "awaitAch"
                THEN TryFinish(got, now, events + 1) ELSE got
     IN /\ reqCache' =
             IF \E other \in SourceSet : req[r].fetch[i][other].st = "fail"
             THEN reqCache
             ELSE StoreData(reqCache, <<source, req[r].apps[i]>>, data, now)
        /\ req' = [req EXCEPT ![r] = rec]
        /\ respCache' = IF req[r].pc = "awaitAch"
                        THEN CacheAfter(respCache, rec, now) ELSE respCache
        /\ events' = IF req[r].pc = "awaitAch"
                     THEN events + Finished(rec) ELSE events
  /\ UNCHANGED <<mergeVars, clockVars, limiterVars>>

\* one of the three calls of a getGameAchievements answers
FetchDone(r, i, source) ==
  /\ i \in 1..Len(req[r].fetch)
  /\ req[r].fetch[i][source].st = "pending"
  /\ LET data == UpstreamData(source, req[r].apps[i])
         got == [req[r] EXCEPT !.fetch[i][source] = [st |-> "ok", data |-> data]]
         rec == IF req[r].pc = "awaitAch"
                THEN TryFinish(got, now, events + 1) ELSE got
     IN /\ reqCache' = StoreData(reqCache, <<source, req[r].apps[i]>>, data, now)
        /\ req' = [req EXCEPT ![r] = rec]
        /\ respCache' = IF req[r].pc = "awaitAch"
                        THEN CacheAfter(respCache, rec, now) ELSE respCache
        /\ events' = IF req[r].pc = "awaitAch"
                     THEN events + Finished(rec) ELSE events
  /\ UNCHANGED <<mergeVars, clockVars, limiterVars>>

\* one of the three calls of a getGameAchievements fails
FetchFail(r, i, source) ==
  /\ i \in 1..Len(req[r].fetch)
  /\ req[r].fetch[i][source].st = "pending"
  /\ LET got == [req[r] EXCEPT !.fetch[i][source].st = "fail"]
         rec == IF req[r].pc = "awaitAch"
                THEN TryFinish(got, now, events + 1) ELSE got
     IN /\ req' = [req EXCEPT ![r] = rec]
        /\ respCache' = IF req[r].pc = "awaitAch"
                        THEN CacheAfter(respCache, rec, now) ELSE respCache
        /\ events' = IF req[r].pc = "awaitAch"
                     THEN events + Finished(rec) ELSE events
  /\ UNCHANGED <<mergeVars, clockVars, limiterVars, reqCache>>

PipeSpecInit == MergeIdle /\ ClockInit /\ LimiterInit /\ PipeInit

\* the limiter after n requests of a key to a route at time t that
\* validateRequest refused: they pass rateLimit and touch nothing else
RECURSIVE StoreAfterInvalid(_, _, _, _)
StoreAfterInvalid(n, route, key, t) ==
  IF n = 0 THEN [k \in ClientKeys |-> NoEntry]
  ELSE rateLimit(StoreAfterInvalid(n - 1, route, key, t), t, key,
                 LimitConfig(route)).store

\* the games route starts either untouched or with all but one request of
\* the quota of ip1 used up by invalid requests at time 0
GamesSpecInit ==
  /\ MergeIdle /\ ClockInit /\ PipeInit
  /\ \E n \in {0, LimitConfig("games").maxRequests - 1} :
       /\ requestStore = StoreAfterInvalid(n, "games", "ip1", 0)
       /\ lastCheck = IF n = 0
                      THEN [route |-> "none", key |-> "none", at |-> 0,
                            admitted |-> TRUE, retryAfter |-> 0, prev |-> NoEntry]
                      ELSE [route |-> "games", key |-> "ip1", at |-> 0,
                            admitted |-> TRUE, retryAfter |-> 0,
                            prev |-> StoreAfterInvalid(n - 1, "games", "ip1", 0)["ip1"]]
       /\ winStart = [k \in ClientKeys |-> 0]
       /\ winChecks = [k \in ClientKeys |-> IF k = "ip1" THEN n ELSE 0]
       /\ winRoutes = [k \in ClientKeys |->
                         IF k = "ip1" /\ n > 0 THEN {"games"} ELSE {}]

\* requests of the achievements route
AchNext ==
  \/ \E r \in 1..MaxAchReq, key \in PipeKeys, app \in AchApps :
       ArriveAchievements(r, key, app)
  \/ \E r \in ReqIds, source \in SourceSet : FetchDone(r, 1, source)
  \/ \E r \in ReqIds, source \in SourceSet : FetchFail(r, 1, source)
  \/ \E d \in PipeTickSteps : Tick(d)

SpecAch == PipeSpecInit /\ [][AchNext]_vars

\* requests of the games route without includeAchievements
GamesNext ==
  \/ \E r \in 1..MaxReq, key \in PipeKeys : ArriveGames(r, key, FALSE)
  \/ \E r \in ReqIds, data \in OwnedResponses : OwnedDone(r, data)
  \/ \E r \in ReqIds, error \in UpstreamFailures : OwnedFail(r, error)
  \/ \E d \in GamesTickSteps : Tick(d)

SpecGames == GamesSpecInit /\ [][GamesNext]_vars

\* requests of the games route with includeAchievements=true
GamesAchNext ==
  \/ \E r \in 1..MaxIncReq, key \in PipeKeys : ArriveGames(r, key, TRUE)
  \/ \E r \in ReqIds, data \in OwnedResponses : OwnedDone(r, data)
  \/ \E r \in ReqIds, error \in UpstreamFailures : OwnedFail(r, error)
  \/ \E r \in ReqIds, i \in 1..2, source \in SourceSet : FetchDone(r, i, source)
  \/ \E r \in ReqIds, i \in 1..2, source \in SourceSet : FetchFail(r, i, source)
  \/ \E d \in PipeTickSteps : Tick(d)

SpecGamesAch == PipeSpecInit /\ [][GamesAchNext]_vars

\* requests of the games route over the lifetime of a request-cache entry:
\* the clock passes the response-cache TTL and reaches the hour
HourTickSteps == {300001, 3299999, 3599999}

ReqCacheNext ==
  \/ \E r \in 1..MaxReq, key \in PipeKeys : ArriveGames(r, key, FALSE)
  \/ \E r \in ReqIds, data \in OwnedResponses : OwnedDone(r, data)
  \/ \E r \in ReqIds, error \in UpstreamFailures : OwnedFail(r, error)
  \/ \E d \in HourTickSteps : Tick(d)

SpecReqCache == PipeSpecInit /\ [][ReqCacheNext]_vars

\* a GET whose parameters validateRequest refuses (a malformed steamId): it
\* passes rateLimit, which counts it, and is answered 400 (or 429) before
\* cacheMiddleware and the handler
ArriveInvalid(route, key) ==
  /\ requestStore[key].count < MaxCount
  /\ LET lim == rateLimit(requestStore, now, key, LimitConfig(route))
     IN /\ requestStore' = lim.store
        /\ NoteCheck(route, key, lim)
  /\ UNCHANGED <<mergeVars, clockVars, pipeVars>>

\* requests of the games route, valid and refused ones, while the clock
\* passes the expiry of a response-cache entry built shortly before the
\* request-cache entry expired
StaleTickSteps == {3599999, 300000}

\* the upstream answers of this specification: one games list, or a timeout
StaleResponses == {data \in OwnedResponses : Len(data) = 2}
StaleFailures == {error \in UpstreamFailures : ~error.response /\ error.request}

StaleNext ==
  \/ \E r \in 1..MaxReq, key \in PipeKeys : ArriveGames(r, key, FALSE)
  \/ \E key \in PipeKeys : ArriveInvalid("games", key)
  \/ \E r \in ReqIds, data \in StaleResponses : OwnedDone(r, data)
  \/ \E r \in ReqIds, error \in StaleFailures : OwnedFail(r, error)
  \/ \E d \in StaleTickSteps : Tick(d)

SpecStale == PipeSpecInit /\ [][StaleNext]_vars

(***************************************************************************)
(* Helpers to state the merge claims                                       *)
(***************************************************************************)
KeysOf(out) == {out[i].apiName : i \in 1..Len(out)}
SchemaNames(schema) == {schema[i].name : i \in 1..Len(schema)}
\* index of the last entry of a stats list that satisfies P: with repeated
\* names the later forEach iteration overwrites the earlier one
LastIndex(list, P(_)) ==
  CHOOSE i \in 1..Len(list) :
    P(list[i]) /\ \A j \in (i + 1)..Len(list) : ~P(list[j])

InGlobal(k) == \E i \in 1..Len(mGlobal) : mGlobal[i].name = k
GlobalEntry(k) == LET P(e) == e.name = k IN mGlobal[LastIndex(mGlobal, P)]
InUser(k) == \E i \in 1..Len(mUser) : mUser[i].apiname = k
UserEntry(k) == LET P(e) == e.apiname = k IN mUser[LastIndex(mUser, P)]

\* C1: the set of apiName keys of the merged list equals the set of names of
\* the schema list: nothing from global stats or user stats only is added,
\* no schema key is omitted.
C1_KeySetIsSchema ==
  mPc = "merged" => KeysOf(mOut) = SchemaNames(mSchema)

\* the merge ran on inputs where a stats list names a key the schema lacks
C1_Witness ==
  /\ mPc = "merged"
  /\ mSchema # <<>>
  /\ \E i \in 1..Len(mGlobal) : mGlobal[i].name \notin SchemaNames(mSchema)
  /\ \E i \in 1..Len(mUser) : mUser[i].apiname \notin SchemaNames(mSchema)

\* C2: for every schema key k the merged record has unlocked = true iff the
\* user-stats list marks k achieved, and has unlockTime set iff unlocked is
\* true and the user-stats entry carries a non-zero unlock time (a record
\* with unlocked = false never carries an unlockTime).
C2_UnlockedAndUnlockTime ==
  mPc = "merged" =>
    \A i \in 1..Len(mOut) :
      LET k == mOut[i].apiName IN
        /\ mOut[i].unlocked <=> (InUser(k) /\ UserEntry(k).achieved = 1)
        /\ (mOut[i].unlockTime # <<>>) <=>
             (mOut[i].unlocked /\ InUser(k) /\ UserEntry(k).unlocktime # 0)

\* C3: for every schema key k, globalPercentage is the global-stats value of
\* k when k appears in global stats, and 0 when it does not.
C3_GlobalPercentage ==
  mPc = "merged" =>
    \A i \in 1..Len(mOut) :
      LET k == mOut[i].apiName IN
        mOut[i].globalPercentage =
          (IF InGlobal(k) THEN GlobalEntry(k).percent ELSE 0)

\* the merge ran with one schema key overlaid by a non-zero percentage and
\* another schema key absent from global stats
C3_Witness ==
  /\ mPc = "merged"
  /\ \E i, j \in 1..Len(mOut) :
       /\ InGlobal(mOut[i].apiName) /\ mOut[i].globalPercentage # 0
       /\ ~InGlobal(mOut[j].apiName) /\ mOut[j].globalPercentage = 0

(***************************************************************************)
(* Claims about the limiter                                                *)
(***************************************************************************)
OtherRoute(route) == IF route = "games" THEN "achievements" ELSE "games"

\* the entry the limiter instance of a route reads for a key: both closures
\* returned by rateLimit(config) use the one module-level requestStore
LimiterState(route, key) == requestStore[key]

\* C4: for a limiter with maxRequests = N and window W and any key starting
\* from no entry, the first N admission checks made within W of the window
\* start are admitted and the (N+1)-th is rejected, also when checks for
\* other keys are interleaved.  (Checks counted: those of the key in its
\* window, all made on the limiter in question.)
C4_QuotaPerWindow ==
  lastCheck.route \in Routes =>
    LET k == lastCheck.key
        config == LimitConfig(lastCheck.route)
    IN (winRoutes[k] = {lastCheck.route}
        /\ lastCheck.at - winStart[k] < config.windowMs)
       => /\ winChecks[k] <= config.maxRequests => lastCheck.admitted
          /\ winChecks[k] = config.maxRequests + 1 => ~lastCheck.admitted

\* the 11th check of ip1 on the games route, all within the window, was
\* rejected while ip2 made checks of its own in between
C4_Witness ==
  /\ lastCheck.route = "games" /\ lastCheck.key = "ip1"
  /\ winRoutes["ip1"] = {"games"}
  /\ winChecks["ip1"] = LimitConfig("games").maxRequests + 1
  /\ lastCheck.at - winStart["ip1"] < LimitConfig("games").windowMs
  /\ ~lastCheck.admitted
  /\ winChecks["ip2"] > 0

\* C5: a check at time now for a key whose entry has
\* now - windowStart >= windowMs (boundary included, rejected keys included)
\* starts a fresh window, count = 1 and windowStart = now, and is admitted.
C5_FreshWindowFromBoundary ==
  (/\ lastCheck.route \in Routes
   /\ lastCheck.prev.present
   /\ lastCheck.at - lastCheck.prev.resetTime
        >= LimitConfig(lastCheck.route).windowMs)
  => /\ lastCheck.admitted
     /\ requestStore[lastCheck.key] =
          [present |-> TRUE, count |-> 1, resetTime |-> lastCheck.at]

\* C6: the limiters of the two routes are independent: a check made on one
\* route never changes the count or the window start that the other route's
\* limiter holds for any key.
C6_RoutesIndependent ==
  [][\A route \in Routes, key \in ClientKeys :
       (lastCheck' # lastCheck /\ lastCheck'.route = route)
       => LimiterState(OtherRoute(route), key)' =
            LimiterState(OtherRoute(route), key)]_vars

(***************************************************************************)
(* Claims about the response cache and the achievement join                *)
(***************************************************************************)
GamesTtlMs == RouteTtl("games") * 1000

\* r2 repeats r1: same route and query, made after r1 was answered and
\* before the response-cache TTL has elapsed since that answer
Repeats(r2, r1) ==
  /\ req[r1].pc = "done"
  /\ req[r1].route = "games"
  /\ req[r2].pc # "new"
  /\ req[r2].respKey = req[r1].respKey
  /\ req[r1].doneSeq < req[r2].arriveSeq
  /\ req[r2].arrivedAt < req[r1].doneAt + GamesTtlMs

\* the handler answers produced for the key of r before r arrived
AnsweredBefore(r) ==
  {q \in ReqIds : /\ req[q].pc = "done" /\ req[q].patched
                  /\ req[q].respKey = req[r].respKey
                  /\ req[q].doneSeq < req[r].arriveSeq}

LatestBefore(r) ==
  CHOOSE q \in AnsweredBefore(r) :
    \A p \in AnsweredBefore(r) : req[p].doneSeq <= req[q].doneSeq

\* C7 as stated: once a getUserGames request has produced its response,
\* every repeat with identical route and query made before the 5-minute TTL
\* has elapsed returns the identical payload and makes no upstream call.
C7_RepeatIdentical ==
  \A r1, r2 \in ReqIds :
    (Repeats(r2, r1) /\ req[r1].status # 429)
    => /\ req[r2].pc = "done"
       /\ req[r2].body = req[r1].body
       /\ req[r2].calls = 0

\* C7 as amended: once the games handler has answered a request (it passed
\* the limiter and missed the response cache), every repeat with identical
\* route and query that arrives before the 5-minute TTL has elapsed and is
\* admitted by the rate limiter is answered from the response cache with no
\* upstream call, with the payload of the latest answer the handler produced
\* for that route and query before the repeat arrived.
C7_RepeatServedFromCache ==
  \A r1, r2 \in ReqIds :
    (Repeats(r2, r1) /\ req[r1].patched /\ req[r2].status # 429)
    => /\ req[r2].pc = "done"
       /\ req[r2].fromCache
       /\ req[r2].calls = 0
       /\ req[r2].body = req[LatestBefore(r2)].body

\* a repeat made later than the first answer but within the TTL was served
\* the first answer's payload from the response cache
C7_Witness ==
  \E r1, r2 \in ReqIds :
    /\ Repeats(r2, r1) /\ req[r1].patched /\ req[r1].status = 200
    /\ req[r2].arrivedAt > req[r1].doneAt
    /\ req[r2].fromCache /\ req[r2].calls = 0
    /\ req[r2].body = req[r1].body

HasFailure(fetches) == \E source \in SourceSet : fetches[source].st = "fail"

\* C8: when one of the three fetches of a game fails, getGameAchievements
\* returns [] instead of raising, and the owned-games aggregation that asked
\* for achievements still succeeds with every game present, the affected
\* game carrying achievements = [].
C8_FailSoft ==
  \A r \in ReqIds :
    (req[r].route = "games" /\ req[r].inc /\ req[r].owned = "ok")
    => /\ req[r].status \in {0, 200}
       /\ req[r].pc = "awaitAch"
            => \E i \in 1..Len(req[r].fetch) :
                 ~HasFailure(req[r].fetch[i]) /\ PendingIn(req[r].fetch[i]) # {}
       /\ req[r].pc = "done"
            => /\ req[r].body.kind = "games"
               /\ Len(req[r].body.games) = Len(req[r].games)
               /\ \A i \in 1..Len(req[r].games) :
                    /\ req[r].body.games[i].appId = req[r].games[i].appId
                    /\ Len(req[r].body.games[i].achievements) = 1
                    /\ HasFailure(req[r].fetch[i])
                         => req[r].body.games[i].achievements = << <<>> >>

\* an aggregation of two games was answered 200, one game with a failed
\* fetch and achievements = [], the other with its merged achievements
C8_Witness ==
  \E r \in ReqIds :
    /\ req[r].pc = "done" /\ req[r].status = 200 /\ req[r].inc
    /\ Len(req[r].games) = 2
    /\ \E i, j \in 1..2 :
         /\ HasFailure(req[r].fetch[i])
         /\ req[r].body.games[i].achievements = << <<>> >>
         /\ ~HasFailure(req[r].fetch[j])
         /\ req[r].body.games[j].achievements[1] # <<>>

\* C9: the output of a getGameAchievements call is produced only after all
\* three fetches have completed or failed: the call never returns while one
\* of its fetches is still in flight.
C9_WaitsForAllFetches ==
  \A r \in ReqIds :
    (req[r].route = "achievements" /\ req[r].pc = "done" /\ req[r].patched)
    => PendingIn(req[r].fetch[1]) = {}

\* C10: in a direct single-game achievement request a failure of any of the
\* upstream fetches reaches the transport layer as an error outcome; the
\* request does not complete with a success response.
C10_DirectFailurePropagates ==
  \A r \in ReqIds :
    (/\ req[r].route = "achievements" /\ req[r].pc = "done" /\ req[r].patched
     /\ HasFailure(req[r].fetch[1]))
    => req[r].status >= 400 /\ req[r].body.kind = "error"

(***************************************************************************)
(* Claims about failures of the owned-games fetch                          *)
(***************************************************************************)
\* C11: if the owned-games upstream fetch fails, getUserGames raises the
\* typed upstream error to the transport layer: no games payload is
\* produced, no per-game achievement fetch is issued (the one upstream call
\* of the request is the failed one), and the request ends in errorHandler.
C11_OwnedFailureRaised ==
  \A r \in ReqIds :
    req[r].owned = "fail"
    => /\ req[r].pc = "done"
       /\ req[r].body.kind = "error"
       /\ req[r].body.code = "STEAM_API_ERROR"
       /\ req[r].games = <<>>
       /\ req[r].fetch = <<>>
       /\ req[r].calls = 1

\* a request that asked for achievements ended in errorHandler after its
\* owned-games fetch failed
C11_Witness ==
  \E r \in ReqIds :
    /\ req[r].route = "games" /\ req[r].inc
    /\ req[r].owned = "fail" /\ req[r].pc = "done"
    /\ req[r].body.kind = "error"

\* C12: every request whose aggregation failed because of an upstream
\* failure (network failure, timeout, or non-2xx upstream status of any
\* value) is answered with a 502- or 503-class status, and so is every later
\* request answered from what that failed request left behind.
C12_UpstreamFailureIs50x ==
  \A r \in ReqIds :
    (/\ req[r].pc = "done"
     /\ req[r].body.kind = "error"
     /\ req[r].body.code = "STEAM_API_ERROR")
    => req[r].status \in {502, 503}

(***************************************************************************)
(* Claims about the aggregation with achievements per game                 *)
(***************************************************************************)
\* what getGameAchievements returns for an app given how its fetches ended
ExpectedAchievements(app, fetches) ==
  IF HasFailure(fetches) THEN <<>>
  ELSE transformAchievementsData(UpstreamData("user", app),
                                 UpstreamData("global", app),
                                 UpstreamData("schema", app))

\* C13: when the owned-games aggregation requests achievements per game,
\* the games of the final output appear in exactly the order returned by the
\* owned-games call, each paired with its own achievement list, for every
\* order in which the concurrent per-game fetch-and-merge operations
\* complete.
C13_OutputInOwnedOrder ==
  \A r \in ReqIds :
    (/\ req[r].route = "games" /\ req[r].inc
     /\ req[r].pc = "done" /\ req[r].patched /\ req[r].status = 200)
    => /\ Len(req[r].body.games) = Len(req[r].raw)
       /\ \A i \in 1..Len(req[r].raw) :
            /\ req[r].body.games[i].appId = req[r].raw[i].appid
            /\ req[r].body.games[i].achievements =
                 <<ExpectedAchievements(req[r].raw[i].appid, req[r].fetch[i])>>

\* an aggregation of two games was answered after the second game's
\* achievements settled before the first game's, both with their own list
C13_Witness ==
  \E r \in ReqIds :
    /\ req[r].route = "games" /\ req[r].inc
    /\ req[r].pc = "done" /\ req[r].status = 200
    /\ Len(req[r].raw) = 2
    /\ req[r].order = <<2, 1>>
    /\ req[r].body.games[1].achievements # req[r].body.games[2].achievements
    /\ req[r].body.games[1].achievements # << <<>> >>
    /\ req[r].body.games[2].achievements # << <<>> >>

(***************************************************************************)
(* Claims about the request-level cache                                    *)
(***************************************************************************)
\* the fixed TTL of a request-cache entry
OneHourMs == 3600000

\* the requests whose GetOwnedGames call succeeded, and so stored its
\* response under the owned-games key, before r arrived
StoresBefore(r) ==
  {q \in ReqIds : /\ req[q].pc = "done" /\ req[q].patched
                  /\ req[q].owned = "ok" /\ req[q].calls = 1
                  /\ req[q].doneSeq < req[r].arriveSeq}

LatestStore(r) ==
  CHOOSE q \in StoresBefore(r) :
    \A p \in StoresBefore(r) : req[p].doneSeq <= req[q].doneSeq

\* C14: after a successful upstream call for key k stored at time t, every
\* makeRequest for k at a time before t + 1 hour returns the stored payload
\* with no upstream call, and every makeRequest for k at or after t + 1 hour
\* treats the entry as absent and performs an upstream call.  (k is the
\* owned-games key; makeRequest runs when a request enters the handler.)
C14_RequestCacheOneHour ==
  \A r \in ReqIds :
    (req[r].route = "games" /\ req[r].patched /\ StoresBefore(r) # {})
    => LET q == LatestStore(r)
       IN IF req[r].arrivedAt < req[q].doneAt + OneHourMs
          THEN /\ req[r].calls = 0
               /\ req[r].owned = "ok"
               /\ req[r].raw = req[q].raw
          ELSE /\ req[r].calls = 1
               /\ req[r].owned \in {"pending", "ok", "fail"}

\* after one store, a request past the response-cache TTL was computed from
\* the request cache without upstream call, and a request made exactly one
\* hour after the store performed the upstream call again
C14_Witness ==
  \E q, r2, r3 \in ReqIds :
    /\ req[r2].patched /\ req[r3].patched
    /\ StoresBefore(r2) = {q} /\ StoresBefore(r3) = {q}
    /\ req[r2].arrivedAt > req[q].doneAt
    /\ req[r2].arrivedAt < req[q].doneAt + OneHourMs
    /\ req[r2].calls = 0 /\ req[r2].raw = req[q].raw
    /\ req[r3].arrivedAt = req[q].doneAt + OneHourMs
    /\ req[r3].calls = 1

\* C15: for every raw game, transformGameData sets lastPlayed only if the
\* upstream last-played value is present and non-zero; when the upstream
\* value is absent or zero the GameRecord has no lastPlayed value, and no
\* GameRecord ever carries the zero/epoch timestamp.
C15_LastPlayedOnlyNonZero ==
  \A r \in ReqIds :
    \A i \in 1..Len(req[r].games) :
      /\ (req[r].games[i].lastPlayed # <<>>)
           <=> (/\ req[r].raw[i].rtime_last_played # <<>>
                /\ req[r].raw[i].rtime_last_played # <<0>>)
      /\ req[r].games[i].lastPlayed # <<0>>

\* C16: when one of the three upstream fetches of a getGameAchievements call
\* fails, the other fetches already issued are not aborted: each still runs
\* to completion, and each that succeeds stores its response in the
\* request-level cache, even though the call itself has degraded to an
\* empty list.
C16_OthersRunToCompletion ==
  [][\A r \in ReqIds, source \in SourceSet :
       (req[r].route = "achievements" /\ req[r].fetch # <<>>)
       => /\ (/\ req[r].fetch[1][source].st = "pending"
              /\ req'[r].fetch[1][source].st = "fail")
             => \A other \in SourceSet \ {source} :
                  req'[r].fetch[1][other] = req[r].fetch[1][other]
          /\ (/\ HasFailure(req[r].fetch[1])
              /\ req[r].fetch[1][source].st = "pending"
              /\ req'[r].fetch[1][source].st = "ok")
             => /\ reqCache'[<<source, req[r].apps[1]>>] =
                     [present |-> TRUE,
                      data |-> UpstreamData(source, req[r].apps[1]),
                      expiry |-> now + OneHourMs]
                /\ req'[r].status = req[r].status
                /\ req'[r].body = req[r].body]_vars

\* a direct achievements request was answered with the empty list after one
\* fetch failed, and another of its fetches succeeded later and is in the
\* request cache
C16_Witness ==
  /\ req[1].route = "achievements" /\ req[1].pc = "done"
  /\ req[1].status = 200 /\ req[1].body.achievements = <<>>
  /\ req[2].pc = "new"
  /\ HasFailure(req[1].fetch[1])
  /\ \E source \in SourceSet :
       /\ req[1].fetch[1][source].st = "ok"
       /\ reqCache[<<source, 1>>].present
       /\ reqCache[<<source, 1>>].expiry > req[1].doneAt + OneHourMs

(***************************************************************************)
(* More claims about the limiter                                           *)
(***************************************************************************)
\* C17: every rejected admission check reports a retry-after equal to the
\* time remaining until the key's window resets, rounded up to whole
\* seconds; in every reachable state this value is at least 1 and at most
\* ceil(windowMs / 1000), and a check made retry-after seconds later is
\* admitted.  (Stated here: the reported value and its range.)
C17_RetryAfterInRange ==
  (lastCheck.route \in Routes /\ ~lastCheck.admitted)
  => LET W == LimitConfig(lastCheck.route).windowMs
         entry == requestStore[lastCheck.key]
     IN /\ lastCheck.retryAfter =
             CeilSeconds(entry.resetTime + W - lastCheck.at)
        /\ lastCheck.retryAfter >= 1
        /\ lastCheck.retryAfter <= CeilSeconds(W)

(***************************************************************************)
(* Claims about the order of the middleware                                *)
(***************************************************************************)
\* C18: every request to an aggregation route passes the rate limiter's
\* admission check before the response cache is consulted: a request that
\* would be a response-cache hit still increments the key's count and can be
\* rejected, and a rejected request performs no response-cache read or
\* write, no merge and no upstream call.
C18_LimiterBeforeCache ==
  [][\A r \in ReqIds :
       (req[r].pc = "new" /\ req'[r].pc # "new")
       => LET key == req'[r].key
              old == requestStore[key]
              new == requestStore'[key]
          IN /\ lastCheck'.key = key
             /\ lastCheck'.route = req'[r].route
             /\ lastCheck'.at = now
             /\ lastCheck'.admitted <=> req'[r].status # 429
             /\ new.present
             /\ new.count = IF old.present /\ new.resetTime = old.resetTime
                            THEN old.count + 1 ELSE 1
             /\ req'[r].status = 429
                  => /\ respCache' = respCache
                     /\ reqCache' = reqCache
                     /\ ~req'[r].fromCache /\ ~req'[r].patched
                     /\ req'[r].calls = 0
                     /\ req'[r].games = <<>> /\ req'[r].fetch = <<>>
                     /\ req'[r].body.kind = "error"]_vars

\* a request was rejected although the response cache held a live entry for
\* its key, left by an earlier answer of the handler
C18_Witness ==
  \E q, r \in ReqIds :
    /\ req[q].pc = "done" /\ req[q].patched /\ req[q].status = 200
    /\ req[r].pc = "done" /\ req[r].status = 429
    /\ req[r].respKey = req[q].respKey
    /\ req[q].doneSeq < req[r].arriveSeq
    /\ respCache[req[r].respKey].present
    /\ respCache[req[r].respKey].body = req[q].body
    /\ respCache[req[r].respKey].expiry >= req[r].arrivedAt

(***************************************************************************)
(* Claims about the order of the overlay passes                            *)
(***************************************************************************)
\* the merge with the user-achievement overlay applied before the
\* global-percentage overlay
transformUserFirst(userAchievements, globalStats, schema) ==
  GlobalPass(UserPass(SchemaPass(<<>>, schema), userAchievements), globalStats)

\* C19: for every triple of input lists, applying the global-percentage
\* overlay before the user-achievement overlay yields the same final field
\* values for every record as applying the user-achievement overlay first.
C19_OverlaysCommute ==
  mPc = "merged" => mOut = transformUserFirst(mUser, mGlobal, mSchema)

\* the merge ran on inputs where both overlays write to the same record
C19_Witness ==
  /\ mPc = "merged"
  /\ \E i \in 1..Len(mOut) :
       /\ InGlobal(mOut[i].apiName) /\ mOut[i].globalPercentage # 0
       /\ InUser(mOut[i].apiName) /\ mOut[i].unlocked
       /\ mOut[i].unlockTime # <<>>

(***************************************************************************)
(* Claims about the cleanup of the limiter store                           *)
(***************************************************************************)
\* C20: after every admission check made at time now by a request that has
\* a client key, whether admitted or rejected, the limiter store contains no
\* entry whose window start is older than the window length: every stored
\* entry satisfies windowStart >= now - windowMs.
C20_NoStaleEntryAfterCheck ==
  (lastCheck.route \in Routes /\ lastCheck.at = now)
  => \A k \in ClientKeys :
       requestStore[k].present
       => requestStore[k].resetTime
            >= now - LimitConfig(lastCheck.route).windowMs

\* a check of one key was made after the window of the other key, which had
\* made checks before, had run out, and the other key's entry is gone
C20_Witness ==
  \E k \in ClientKeys :
    /\ lastCheck.route \in Routes /\ lastCheck.at = now
    /\ lastCheck.key # k
    /\ winRoutes[k] # {}
    /\ now - winStart[k] > LimitConfig(lastCheck.route).windowMs
    /\ ~requestStore[k].present

(***************************************************************************)
(* Claims about what the two caches hold after failures                    *)
(***************************************************************************)
\* C21: the response cache only ever stores bodies of successful responses:
\* after any sequence of requests no entry holds the body of an error
\* response, so a response-cache hit never replays a failed request's error
\* body with a success status.
C21_NoErrorBodyCached ==
  /\ \A k \in RespKeys :
       respCache[k].present => respCache[k].body.kind # "error"
  /\ \A r \in ReqIds :
       (req[r].pc = "done" /\ req[r].fromCache)
       => req[r].body.kind # "error"

\* the requests whose GetOwnedGames call failed before r arrived
FailuresBefore(r) ==
  {q \in ReqIds : /\ req[q].pc = "done" /\ req[q].owned = "fail"
                  /\ req[q].doneSeq < req[r].arriveSeq}

\* what holds of the makeRequest invocations of the games route in a state:
\* each issued at most one upstream call, a failed one was not repeated, and
\* one made after a failure called upstream unless an unexpired successful
\* entry existed
NoRetryState ==
  \A r \in ReqIds :
    /\ req[r].calls <= 1
    /\ req[r].owned = "fail" => req[r].calls = 1 /\ req[r].pc = "done"
    /\ (req[r].patched /\ FailuresBefore(r) # {})
       => req[r].calls =
            (IF /\ StoresBefore(r) # {}
                /\ req[r].arrivedAt < req[LatestStore(r)].doneAt + OneHourMs
             THEN 0 ELSE 1)

\* C22: a failed upstream call leaves the request-level cache unchanged (no
\* entry is added, replaced or removed for its key), each makeRequest
\* invocation issues at most one upstream call, and the next makeRequest for
\* the same key after a failure performs a new upstream call unless an
\* unexpired successful entry for that key exists.
C22_FailureLeavesCacheNoRetry ==
  [][/\ \A r \in ReqIds :
          (req[r].owned = "pending" /\ req'[r].owned = "fail")
          => reqCache' = reqCache
     /\ NoRetryState']_vars

\* after a failed owned-games call and with no entry in the request cache,
\* a later request entered the handler and issued a new upstream call
C22_Witness ==
  \E q, r \in ReqIds :
    /\ q \in FailuresBefore(r)
    /\ req[r].patched /\ req[r].arrivedAt > req[q].doneAt
    /\ StoresBefore(r) = {}
    /\ req[r].owned = "pending" /\ req[r].calls = 1
    /\ ~reqCache[OwnedKey].present

(***************************************************************************)
(* Claims about rejected checks                                            *)
(***************************************************************************)
\* C23: a rejected admission check never changes the key's window start:
\* however many requests a client sends while it is being rejected, its
\* window still ends at the original windowStart + windowMs, only its count
\* grows.
C23_RejectKeepsWindowStart ==
  (lastCheck.route \in Routes /\ ~lastCheck.admitted)
  => /\ lastCheck.prev.present
     /\ requestStore[lastCheck.key].present
     /\ requestStore[lastCheck.key].resetTime = lastCheck.prev.resetTime
     /\ requestStore[lastCheck.key].count = lastCheck.prev.count + 1

\* a key was rejected again, later than its window start and after earlier
\* rejections, and its window start is still the original one
C23_Witness ==
  /\ lastCheck.route = "games" /\ ~lastCheck.admitted
  /\ lastCheck.prev.count > LimitConfig("games").maxRequests + 1
  /\ lastCheck.at > lastCheck.prev.resetTime
  /\ requestStore[lastCheck.key].resetTime = lastCheck.prev.resetTime
  /\ winStart[lastCheck.key] = lastCheck.prev.resetTime

(***************************************************************************)
(* Claims about the two caches together                                    *)
(***************************************************************************)
\* the time at which the upstream response behind the answer of the handler
\* to request h was fetched: by h itself, or by the latest store before it
HandlerFetchTime(h) ==
  IF req[h].calls = 1 THEN req[h].doneAt ELSE req[LatestStore(h)].doneAt

\* the same for any served request: a response-cache hit serves the latest
\* answer of the handler for its key
ServedFetchTime(r) ==
  IF req[r].fromCache THEN HandlerFetchTime(LatestBefore(r))
  ELSE HandlerFetchTime(r)

\* r was served an owned-games payload
ServedGames(r) ==
  /\ req[r].pc = "done" /\ req[r].route = "games"
  /\ req[r].status = 200 /\ req[r].body.kind = "games"

\* every served payload is tied to the upstream response it was built from,
\* which was fetched less than 1 hour + 5 minutes earlier
StalenessBounded ==
  \A r \in ReqIds :
    ServedGames(r)
    => /\ req[r].fromCache
            => /\ AnsweredBefore(r) # {}
               /\ req[r].body = req[LatestBefore(r)].body
       /\ LET h == IF req[r].fromCache THEN LatestBefore(r) ELSE r
          IN /\ req[h].patched
             /\ req[h].calls = 0
                  => /\ StoresBefore(h) # {}
                     /\ req[h].raw = req[LatestStore(h)].raw
       /\ req[r].doneAt - ServedFetchTime(r) < OneHourMs + GamesTtlMs

\* r was made after the response-cache entry of its key had expired and
\* before the request-cache entry of the owned-games key expired
BetweenExpiries(r) ==
  /\ req[r].pc # "new" /\ req[r].route = "games"
  /\ AnsweredBefore(r) # {}
  /\ req[r].arrivedAt > req[LatestBefore(r)].doneAt + GamesTtlMs
  /\ StoresBefore(r) # {}
  /\ req[r].arrivedAt < req[LatestStore(r)].doneAt + OneHourMs

RecomputedFromRequestCache(r) ==
  /\ req[r].pc = "done" /\ req[r].status = 200
  /\ req[r].patched /\ ~req[r].fromCache
  /\ req[r].calls = 0
  /\ req[r].raw = req[LatestStore(r)].raw

====
